---- MODULE Spec2Model ----
(***************************************************************************)
(* Model of CareerRecommendationEngine (career_recommendation_system.py):  *)
(* the TF-IDF fit done once by the constructor, analyze_skill_gap,         *)
(* recommend_careers and get_learning_path.                                *)
(*                                                                         *)
(* Python strings are sequences of one-character strings, so that lower(), *)
(* strip(), the substring test `a in b` and the vectorizer's tokenizer are *)
(* computed rather than assumed.  Floats are fixed-point integers with     *)
(* three decimals (1000 stands for 1.0).                                   *)
(***************************************************************************)
EXTENDS Integers, Sequences, FiniteSets, TLC

VARIABLES
    career_database,  \* self.career_database: sequence of [name, skills] in dict insertion order
    vectorizer,       \* self.vectorizer after fit: [vocabulary_, idf_]
    skill_matrix,     \* self.skill_matrix: one TF-IDF row per career
    career_names,     \* self.career_names
    hashseed,         \* the process's string-hash seed: fixes the iteration order of every set of str
    argsort_ties,     \* how this numpy build's (unstable) default argsort orders equal keys
    pc,               \* "idle": constructed, no call made; "returned": a call has ended;
                      \* "failed": the constructor raised
    call,             \* the arguments of the last call
    result,           \* what the last call returned
    raised            \* the exception the constructor or the last call raised, "none" if none

vars == <<career_database, vectorizer, skill_matrix, career_names,
          hashseed, argsort_ties, pc, call, result, raised>>

-----------------------------------------------------------------------------
(* Bounds of the model *)

MaxUserSkills == 3    \* longest user_skills list
MaxTopN == 3          \* largest top_n
MaxNegTopN == 1       \* top_n ranges down to -MaxNegTopN
MaxAdded == 1         \* most skills added to a list when two lists are compared
MaxMissing == 4       \* longest missing_skills list given to get_learning_path

-----------------------------------------------------------------------------
(* Python str operations *)

UpperCase == <<"A","B","C","D","E","F","G","H","I","J","K","L","M",
               "N","O","P","Q","R","S","T","U","V","W","X","Y","Z">>
LowerCase == <<"a","b","c","d","e","f","g","h","i","j","k","l","m",
               "n","o","p","q","r","s","t","u","v","w","x","y","z">>

\* str.lower() on one character
LowerChar(c) ==
    IF \E i \in 1..Len(UpperCase) : UpperCase[i] = c
    THEN LowerCase[CHOOSE i \in 1..Len(UpperCase) : UpperCase[i] = c]
    ELSE c

\* str.lower()
lower(s) == [i \in 1..Len(s) |-> LowerChar(s[i])]

IsSpace(c) == c = " "

\* str.strip(): drop leading and trailing whitespace
strip(s) ==
    LET keep == {i \in 1..Len(s) : ~IsSpace(s[i])}
    IN  IF keep = {} THEN <<>>
        ELSE SubSeq(s, CHOOSE i \in keep : \A j \in keep : i <= j,
                       CHOOSE i \in keep : \A j \in keep : i >= j)

\* the substring test `a in b`
Contains(a, b) ==
    \E i \in 0..(Len(b) - Len(a)) : SubSeq(b, i + 1, i + Len(a)) = a

\* " ".join(parts)
RECURSIVE join(_)
join(parts) ==
    IF parts = <<>> THEN <<>>
    ELSE IF Len(parts) = 1 THEN parts[1]
    ELSE parts[1] \o <<" ">> \o join(Tail(parts))

\* str(n) for n >= 0
Digits == <<"0","1","2","3","4","5","6","7","8","9">>
RECURSIVE str(_)
str(n) == IF n < 10 THEN <<Digits[n + 1]>>
          ELSE str(n \div 10) \o <<Digits[(n % 10) + 1]>>

Range(s) == {s[i] : i \in 1..Len(s)}

RECURSIVE Reverse(_)
Reverse(s) == IF s = <<>> THEN <<>> ELSE Append(Reverse(Tail(s)), Head(s))

\* the distinct elements of a list, each at its first occurrence
RECURSIVE Dedup(_)
Dedup(s) ==
    IF s = <<>> THEN <<>>
    ELSE LET d == Dedup(SubSeq(s, 1, Len(s) - 1))
         IN  IF s[Len(s)] \in Range(d) THEN d ELSE Append(d, s[Len(s)])

HashSeeds == {0, 1, 2}

\* for x in set(items): a set of str has no declared order; the order is fixed
\* by the process's hash seed.  Seed 0 happens to give the list's order,
\* seed 1 its reverse, seed 2 a rotation.
SetIter(items, seed) ==
    LET d == Dedup(items)
    IN  IF seed = 0 \/ Len(d) < 2 THEN d
        ELSE IF seed = 1 THEN Reverse(d)
        ELSE Append(Tail(d), Head(d))

-----------------------------------------------------------------------------
(* Skill names *)

Java       == <<"J","a","v","a">>
JavaScript == <<"J","a","v","a","S","c","r","i","p","t">>
SQL        == <<"S","Q","L">>
AWS        == <<"A","W","S">>
NLP        == <<"N","L","P">>
ETL        == <<"E","T","L">>
CI_CD      == <<"C","I","/","C","D">>

\* catalogs an engine may be constructed from, in dict insertion order
Catalogs == {
    << [name |-> "Software Engineer", skills |-> <<Java, JavaScript, SQL>>],
       [name |-> "Data Engineer",     skills |-> <<SQL, ETL>>],
       [name |-> "DevOps Engineer",   skills |-> <<CI_CD, AWS, SQL, CI_CD>>] >>,
    << [name |-> "Data Scientist",    skills |-> <<SQL, NLP>>],
       [name |-> "Trainee",           skills |-> <<>>] >>,
    << >> }

\* user skills a caller may pass: one to be stripped, which is then one
\* required skill and part of another; one in another letter case than
\* declared; one that contains a required skill; one as declared
UserSkillPool == {
    <<" ","J","a","v","a"," ">>,
    <<"s","q","l">>,
    <<"m","y","S","Q","L">>,
    <<"N","L","P">> }

RECURSIVE ListsUpTo(_, _)
ListsUpTo(S, n) ==
    IF n = 0 THEN {<<>>}
    ELSE LET shorter == ListsUpTo(S, n - 1)
         IN  shorter \cup {Append(l, x) : l \in shorter, x \in S}

UserSkillLists == ListsUpTo(UserSkillPool, MaxUserSkills)

-----------------------------------------------------------------------------
(* dict access on the catalog *)

Names(db) == {db[i].name : i \in 1..Len(db)}
Entry(db, career) == db[CHOOSE i \in 1..Len(db) : db[i].name = career]

\* a dict with no keys
EmptyDict == [k \in {} |-> k]

\* Python's float division followed by "* 100", in fixed point
Ratio(num, den) == (num * 1000) \div den

-----------------------------------------------------------------------------
(* analyze_skill_gap *)

\* lines 132-136: the inner loop over user_skills_set, which stops at the
\* first user skill that is a substring of the required skill or contains it
\* the inner loop without its break: the last user skill decides
MutPartialMatchLast(skill_lower, user_iter) ==
    IF user_iter = <<>> THEN FALSE
    ELSE LET last == user_iter[Len(user_iter)]
         IN  Contains(last, skill_lower) \/ Contains(skill_lower, last)

RECURSIVE PartialMatch(_, _)
PartialMatch(skill_lower, user_iter) ==
    IF user_iter = <<>> THEN FALSE
    ELSE IF Contains(Head(user_iter), skill_lower) \/ Contains(skill_lower, Head(user_iter))
         THEN TRUE
         ELSE PartialMatch(skill_lower, Tail(user_iter))

\* the loop body without "if not matched": a partially matched skill is
\* appended to missing_skills as well
MutGapStepAlsoMissing(acc, skill, user_iter) ==
    LET skill_lower == lower(skill)
    IN  IF skill_lower \in Range(user_iter)
        THEN [acc EXCEPT !.matched_skills = Append(@, skill)]
        ELSE IF PartialMatch(skill_lower, user_iter)
             THEN [acc EXCEPT !.matched_skills = Append(@, skill),
                              !.missing_skills = Append(@, skill)]
             ELSE [acc EXCEPT !.missing_skills = Append(@, skill)]

\* the loop body comparing the required skill as declared, not lower-cased
MutGapStepCaseSensitive(acc, skill, user_iter) ==
    IF skill \in Range(user_iter)
    THEN [acc EXCEPT !.matched_skills = Append(@, skill)]
    ELSE IF PartialMatch(skill, user_iter)
         THEN [acc EXCEPT !.matched_skills = Append(@, skill)]
         ELSE [acc EXCEPT !.missing_skills = Append(@, skill)]

\* lines 126-138: one pass of the loop over the required skills
GapStep(acc, skill, user_iter) ==
    LET skill_lower == lower(skill)
    IN  IF skill_lower \in Range(user_iter)
        THEN [acc EXCEPT !.matched_skills = Append(@, skill)]
        ELSE IF PartialMatch(skill_lower, user_iter)
             THEN [acc EXCEPT !.matched_skills = Append(@, skill)]
             ELSE [acc EXCEPT !.missing_skills = Append(@, skill)]

\* lines 122-138: matched_skills and missing_skills after the whole loop
RECURSIVE GapLoop(_, _)
GapLoop(required_iter, user_iter) ==
    IF required_iter = <<>>
    THEN [matched_skills |-> <<>>, missing_skills |-> <<>>]
    ELSE GapStep(GapLoop(SubSeq(required_iter, 1, Len(required_iter) - 1), user_iter),
                 required_iter[Len(required_iter)], user_iter)

\* lines 140-148: the report made of the two lists
ReportOf(matched_skills, missing_skills, required_skills) ==
    [ matched_skills   |-> matched_skills,
      missing_skills   |-> missing_skills,
      match_percentage |-> IF Len(required_skills) > 0
                           THEN Ratio(Len(matched_skills), Len(required_skills)) * 100
                           ELSE 0,
      total_required   |-> Len(required_skills),
      total_matched    |-> Len(matched_skills) ]

\* lines 117-148: the report for a career of the catalog
GapReport(db, seed, user_skills, target_career) ==
    LET required_skills == SetIter(Entry(db, target_career).skills, seed)
        user_skills_set == SetIter([i \in 1..Len(user_skills) |->
                                       strip(lower(user_skills[i]))], seed)
        lists           == GapLoop(required_skills, user_skills_set)
    IN  ReportOf(lists.matched_skills, lists.missing_skills, required_skills)

\* analyze_skill_gap looking the career up with a default of no skills, so that
\* an unknown career gets a report of zero matches
MutAnalyzeUnknownAsEmpty(db, seed, user_skills, target_career) ==
    IF target_career \notin Names(db)
    THEN [ matched_skills |-> <<>>, missing_skills |-> <<>>, match_percentage |-> 0,
           total_required |-> 0, total_matched |-> 0 ]
    ELSE GapReport(db, seed, user_skills, target_career)

analyze_skill_gap(db, seed, user_skills, target_career) ==
    IF target_career \notin Names(db) THEN EmptyDict
    ELSE GapReport(db, seed, user_skills, target_career)

-----------------------------------------------------------------------------
(* TfidfVectorizer and cosine_similarity (scikit-learn defaults) *)

\* \w of the default token_pattern r"(?u)\b\w\w+\b"
IsWordChar(c) == c \notin {" ", "/"}

\* the maximal runs of word characters of text[i..], `cur` being the run so far;
\* a run of a single character is no token
RECURSIVE Runs(_, _, _)
Runs(text, i, cur) ==
    LET done == IF Len(cur) >= 2 THEN <<cur>> ELSE <<>>
    IN  IF i > Len(text) THEN done
        ELSE IF IsWordChar(text[i]) THEN Runs(text, i + 1, Append(cur, text[i]))
        ELSE done \o Runs(text, i + 1, <<>>)

\* the analyzer: lowercase=True, then the token pattern
Tokenize(text) == Runs(lower(text), 1, <<>>)

Count(tok, toks) == Cardinality({i \in 1..Len(toks) : toks[i] = tok})

RECURSIVE SumOver(_, _)
SumOver(S, f) ==
    IF S = {} THEN 0
    ELSE LET x == CHOOSE y \in S : TRUE IN f[x] + SumOver(S \ {x}, f)

\* floor of the square root, by bisection on lo..hi
RECURSIVE IsqrtIn(_, _, _)
IsqrtIn(x, lo, hi) ==
    IF lo >= hi THEN lo
    ELSE LET mid == (lo + hi + 1) \div 2
         IN  IF mid * mid <= x THEN IsqrtIn(x, mid, hi) ELSE IsqrtIn(x, lo, mid - 1)

Isqrt(x) == IsqrtIn(x, 0, 46340)

\* smooth idf, ln((1 + n) / (1 + df)) + 1, in thousandths, for n documents
\* (row) and document frequency df (column)
IdfTable == << <<1000>>,
               <<1405, 1000>>,
               <<1693, 1288, 1000>>,
               <<1916, 1511, 1223, 1000>> >>

\* sklearn.preprocessing.normalize(norm="l2"): a zero row is left as it is
L2Normalize(v) ==
    LET norm == Isqrt(SumOver(DOMAIN v, [t \in DOMAIN v |-> v[t] * v[t]]))
    IN  IF norm = 0 THEN v ELSE [t \in DOMAIN v |-> (v[t] * 1000) \div norm]

\* lines 104-107: one space-joined document per career
CareerTexts(db) == [i \in 1..Len(db) |-> join(db[i].skills)]

\* TfidfVectorizer.fit: the vocabulary and the idf of each of its terms
Fit(texts) ==
    LET toks  == [i \in 1..Len(texts) |-> Tokenize(texts[i])]
        vocab == UNION {Range(toks[i]) : i \in 1..Len(texts)}
        df(t) == Cardinality({i \in 1..Len(texts) : t \in Range(toks[i])})
    IN  [vocabulary_ |-> vocab,
         idf_        |-> [t \in vocab |-> IdfTable[Len(texts)][df(t)]]]

\* TfidfVectorizer.transform of one document: term counts over the fitted
\* vocabulary (unseen terms are dropped), times idf, l2-normalised
Transform(vec, text) ==
    LET toks == Tokenize(text)
    IN  L2Normalize([t \in vec.vocabulary_ |-> Count(t, toks) * vec.idf_[t]])

\* cosine_similarity(x, Y)[0]: both sides normalised, then the dot products
CosineSimilarity(x, Y) ==
    LET xn == L2Normalize(x)
    IN  [i \in 1..Len(Y) |->
            LET yn == L2Normalize(Y[i])
            IN  SumOver(DOMAIN xn, [t \in DOMAIN xn |-> xn[t] * yn[t]]) \div 1000]

-----------------------------------------------------------------------------
(* recommend_careers *)

\* np.argsort(a): the indices of a in ascending order of value.  The default
\* kind is an unstable quicksort, so equal values come in an order the numpy
\* build decides: ties[i] is the rank that build gives index i among equals.
Argsort(a, ties) ==
    LET n == Len(a)
        Before(i, j) == a[i] < a[j] \/ (a[i] = a[j] /\ ties[i] < ties[j])
        p == CHOOSE q \in Permutations(1..n) :
                 \A i, j \in 1..n : i < j => Before(q[i], q[j])
    IN  [i \in 1..n |-> p[i]]

\* the slice taking `stop` as the last index kept
MutSliceToInclusive(seq, stop) ==
    IF stop >= 0
    THEN SubSeq(seq, 1, IF stop + 1 < Len(seq) THEN stop + 1 ELSE Len(seq))
    ELSE SubSeq(seq, 1, IF Len(seq) + stop + 1 > 0 THEN Len(seq) + stop + 1 ELSE 0)

\* seq[:stop] with Python's meaning of a negative stop
SliceTo(seq, stop) ==
    IF stop >= 0
    THEN SubSeq(seq, 1, IF stop < Len(seq) THEN stop ELSE Len(seq))
    ELSE SubSeq(seq, 1, IF Len(seq) + stop > 0 THEN Len(seq) + stop ELSE 0)

\* line 159 without [::-1]: the lowest scores first
MutTopIndicesAscending(similarities, ties, top_n) ==
    SliceTo(Argsort(similarities, ties), top_n)

\* line 159: np.argsort(similarities)[::-1][:top_n]
TopIndices(similarities, ties, top_n) ==
    SliceTo(Reverse(Argsort(similarities, ties)), top_n)

recommend_careers(db, vec, matrix, names, seed, ties, user_skills, top_n) ==
    LET user_skills_text == join(user_skills)
        user_vector      == Transform(vec, user_skills_text)
        similarities     == CosineSimilarity(user_vector, matrix)
        top_indices      == TopIndices(similarities, ties, top_n)
    IN  [k \in 1..Len(top_indices) |->
            LET idx == top_indices[k]
            IN  [ career_name      |-> names[idx],
                  similarity_score |-> similarities[idx] * 100,
                  gap_analysis     |-> analyze_skill_gap(db, seed, user_skills, names[idx]),
                  info             |-> Entry(db, names[idx]) ]]

-----------------------------------------------------------------------------
(* get_learning_path *)

Python             == <<"P","y","t","h","o","n">>
Machine_Learning   == <<"M","a","c","h","i","n","e"," ","L","e","a","r","n","i","n","g">>
Cloud_Computing    == <<"C","l","o","u","d"," ","C","o","m","p","u","t","i","n","g">>
Data_Visualization == <<"D","a","t","a"," ","V","i","s","u","a","l","i","z","a","t","i","o","n">>

\* lines 178-184: the keys of skill_priority and what each maps to
SkillPriorityKeys == {Python, Machine_Learning, SQL, Cloud_Computing, Data_Visualization}

skill_priority(skill) ==
    CASE skill = Python ->
           [level |-> "Beginner-Intermediate",
            resources |-> <<"Python.org", "Real Python", "Codecademy">>,
            time |-> "2-3 months"]
      [] skill = Machine_Learning ->
           [level |-> "Intermediate-Advanced",
            resources |-> <<"Coursera ML Course", "Fast.ai", "Kaggle">>,
            time |-> "3-4 months"]
      [] skill = SQL ->
           [level |-> "Beginner",
            resources |-> <<"SQLBolt", "Mode Analytics", "LeetCode">>,
            time |-> "1-2 months"]
      [] skill = Cloud_Computing ->
           [level |-> "Intermediate",
            resources |-> <<"AWS Training", "Cloud Academy", "A Cloud Guru">>,
            time |-> "2-3 months"]
      [] skill = Data_Visualization ->
           [level |-> "Beginner-Intermediate",
            resources |-> <<"Tableau Public", "DataCamp", "Storytelling with Data">>,
            time |-> "1-2 months"]

\* the table looked up without regard to letter case
MutBundleIgnoreCase(skill) ==
    IF \E key \in SkillPriorityKeys : lower(key) = lower(skill)
    THEN LET key == CHOOSE k \in SkillPriorityKeys : lower(k) = lower(skill)
         IN  [skill     |-> skill,
              level     |-> skill_priority(key).level,
              resources |-> skill_priority(key).resources,
              time      |-> skill_priority(key).time]
    ELSE [skill     |-> skill,
          level     |-> "Intermediate",
          resources |-> <<"Online Courses", "Documentation", "Practice Projects">>,
          time      |-> "2-3 months"]

\* lines 188-199: the bundle appended for one skill
Bundle(skill) ==
    IF skill \in SkillPriorityKeys
    THEN [skill     |-> skill,
          level     |-> skill_priority(skill).level,
          resources |-> skill_priority(skill).resources,
          time      |-> skill_priority(skill).time]
    ELSE [skill     |-> skill,
          level     |-> "Intermediate",
          resources |-> <<"Online Courses", "Documentation", "Practice Projects">>,
          time      |-> "2-3 months"]

\* line 204: f"{len(missing_skills) * 2}-{len(missing_skills) * 3} months"
EstimatedTime(missing_skills) ==
    str(Len(missing_skills) * 2) \o <<"-">> \o str(Len(missing_skills) * 3)
        \o <<" ","m","o","n","t","h","s">>

get_learning_path(missing_skills, career) ==
    [ career          |-> career,
      skills_to_learn |-> [i \in 1..Len(missing_skills) |-> Bundle(missing_skills[i])],
      estimated_time  |-> EstimatedTime(missing_skills) ]

\* missing_skills a caller may pass: two table keys and a skill the table
\* does not have (a key in another letter case)
MissingSkillPool == {SQL, <<"s","q","l">>, Python}

MissingSkillLists == ListsUpTo(MissingSkillPool, MaxMissing)

-----------------------------------------------------------------------------
(* The engine *)

DefaultTopN == 5

TopNs == (-MaxNegTopN .. MaxTopN) \cup {DefaultTopN}

\* career names a caller may pass: those of the catalog and one it lacks
CareerArgs(db) == Names(db) \cup {"Astronaut"}

NoCall == [op |-> "none"]
NoResult == "None"

\* __init__ and _build_model: the vectorizer is fitted once, on the catalog.
\* fit_transform raises ValueError ("empty vocabulary") when the documents hold
\* no token, as with an empty catalog; no engine exists then.
Init ==
    /\ career_database \in Catalogs
    /\ vectorizer = Fit(CareerTexts(career_database))
    /\ skill_matrix = [i \in 1..Len(career_database) |->
                          Transform(vectorizer, CareerTexts(career_database)[i])]
    /\ career_names = [i \in 1..Len(career_database) |-> career_database[i].name]
    /\ hashseed \in HashSeeds
    /\ argsort_ties \in {[i \in 1..Len(career_database) |-> q[i]] :
                            q \in Permutations(1..Len(career_database))}
    /\ pc = IF vectorizer.vocabulary_ = {} THEN "failed" ELSE "idle"
    /\ raised = IF vectorizer.vocabulary_ = {} THEN "ValueError" ELSE "none"
    /\ call = NoCall
    /\ result = NoResult

AnalyzeSkillGap ==
    /\ pc = "idle"
    /\ \E user_skills \in UserSkillLists, target_career \in CareerArgs(career_database) :
         /\ call' = [op |-> "analyze_skill_gap", user_skills |-> user_skills,
                     target_career |-> target_career]
         /\ result' = analyze_skill_gap(career_database, hashseed, user_skills, target_career)
    /\ pc' = "returned"
    /\ raised' = "none"
    /\ UNCHANGED <<career_database, vectorizer, skill_matrix, career_names,
                   hashseed, argsort_ties>>

RecommendCareers ==
    /\ pc = "idle"
    /\ \E user_skills \in UserSkillLists, top_n \in TopNs :
         /\ call' = [op |-> "recommend_careers", user_skills |-> user_skills,
                     top_n |-> top_n]
         /\ result' = recommend_careers(career_database, vectorizer, skill_matrix,
                                        career_names, hashseed, argsort_ties,
                                        user_skills, top_n)
    /\ pc' = "returned"
    /\ raised' = "none"
    /\ UNCHANGED <<career_database, vectorizer, skill_matrix, career_names,
                   hashseed, argsort_ties>>

GetLearningPath ==
    /\ pc = "idle"
    /\ \E missing_skills \in MissingSkillLists, career \in CareerArgs(career_database) :
         /\ call' = [op |-> "get_learning_path", missing_skills |-> missing_skills,
                     career |-> career]
         /\ result' = get_learning_path(missing_skills, career)
    /\ pc' = "returned"
    /\ raised' = "none"
    /\ UNCHANGED <<career_database, vectorizer, skill_matrix, career_names,
                   hashseed, argsort_ties>>

Next == AnalyzeSkillGap \/ RecommendCareers \/ GetLearningPath

Spec == Init /\ [][Next]_vars

-----------------------------------------------------------------------------
(* What the claims talk about *)

Returned(op) == pc = "returned" /\ call.op = op

\* the gap reports of the current state, each with the career it is about: the
\* one analyze_skill_gap returned, or those inside recommend_careers' result
Reports ==
    IF Returned("analyze_skill_gap")
    THEN IF call.target_career \in Names(career_database)
         THEN {[career |-> call.target_career, report |-> result]}
         ELSE {}
    ELSE IF Returned("recommend_careers")
    THEN {[career |-> result[k].career_name, report |-> result[k].gap_analysis] :
              k \in 1..Len(result)}
    ELSE {}

Declared(career) == Entry(career_database, career).skills

NoRepeats(s) == Cardinality(Range(s)) = Len(s)

\* a is b with some elements left out, the rest in b's order
RECURSIVE IsSubseq(_, _)
IsSubseq(a, b) ==
    IF a = <<>> THEN TRUE
    ELSE IF b = <<>> THEN FALSE
    ELSE IF Head(a) = Head(b) THEN IsSubseq(Tail(a), Tail(b))
    ELSE IsSubseq(a, Tail(b))

CareerIndex(name) == CHOOSE i \in 1..Len(career_names) : career_names[i] = name

Smaller(a, b) == IF a < b THEN a ELSE b

-----------------------------------------------------------------------------
(* C1 *)

\* C1: every gap report partitions the career's required skills: each required
\* skill is exactly once in matched_skills or missing_skills and never in both,
\* len(matched_skills) + len(missing_skills) = total_required, and
\* total_matched = len(matched_skills).
C1_Partition ==
    \A r \in Reports :
        LET g == r.report
        IN  /\ Range(g.matched_skills) \cup Range(g.missing_skills) = Range(Declared(r.career))
            /\ Range(g.matched_skills) \cap Range(g.missing_skills) = {}
            /\ NoRepeats(g.matched_skills)
            /\ NoRepeats(g.missing_skills)
            /\ Len(g.matched_skills) + Len(g.missing_skills) = g.total_required
            /\ g.total_matched = Len(g.matched_skills)

\* a report of analyze_skill_gap with matched and missing skills, for a career
\* that declares a skill twice
C1_Witness ==
    /\ Returned("analyze_skill_gap")
    /\ call.target_career \in Names(career_database)
    /\ ~NoRepeats(Declared(call.target_career))
    /\ result.matched_skills # <<>>
    /\ result.missing_skills # <<>>

-----------------------------------------------------------------------------
(* C2 *)

SortedByScore(res) ==
    \A k \in 1..(Len(res) - 1) : res[k].similarity_score >= res[k + 1].similarity_score

TiesInCatalogOrder(res) ==
    \A j, k \in 1..Len(res) :
        (j < k /\ res[j].similarity_score = res[k].similarity_score)
            => CareerIndex(res[j].career_name) < CareerIndex(res[k].career_name)

DistinctCareers(res) ==
    /\ \A k \in 1..Len(res) : res[k].career_name \in Names(career_database)
    /\ \A j, k \in 1..Len(res) : j # k => res[j].career_name # res[k].career_name

-----------------------------------------------------------------------------
(* C3 *)

GapReportKeys == {"matched_skills", "missing_skills", "match_percentage",
                  "total_required", "total_matched"}

-----------------------------------------------------------------------------
(* C4 *)

\* C4: recommend_careers with a top_n of zero or less fails with
\* InvalidArgument and returns no ranking.
C4_NonPositiveTopNFails ==
    (Returned("recommend_careers") /\ call.top_n <= 0) => raised = "InvalidArgument"

-----------------------------------------------------------------------------
(* C5 *)

\* C5: in every gap report matched_skills and missing_skills list their skills
\* in the order in which the career declares them.
C5_DeclaredOrder ==
    \A r \in Reports :
        /\ IsSubseq(r.report.matched_skills, Declared(r.career))
        /\ IsSubseq(r.report.missing_skills, Declared(r.career))

-----------------------------------------------------------------------------
(* C6 *)

\* the report the engine of the current state gives for other user skills
ReportUnder(user_skills, career) ==
    analyze_skill_gap(career_database, hashseed, user_skills, career)

\* the user-skill lists that add up to MaxAdded further skills to user_skills
Extensions(user_skills) ==
    {user_skills \o more : more \in ListsUpTo(UserSkillPool, MaxAdded)}

\* C6: with more user skills (U a subset of U') every required skill matched
\* under U is matched under U', and the match percentage under U' is at least
\* the one under U.
C6_Monotone ==
    (Returned("analyze_skill_gap") /\ call.target_career \in Names(career_database)) =>
        \A more \in Extensions(call.user_skills) :
            \A larger \in {ReportUnder(more, call.target_career)} :
                /\ Range(result.matched_skills) \subseteq Range(larger.matched_skills)
                /\ Range(result.matched_skills) \cap Range(larger.missing_skills) = {}
                /\ result.match_percentage <= larger.match_percentage

\* a report with a matched and a missing skill, where one more user skill
\* matches a skill that was missing
C6_Witness ==
    /\ Returned("analyze_skill_gap")
    /\ call.target_career \in Names(career_database)
    /\ result.matched_skills # <<>>
    /\ \E more \in Extensions(call.user_skills) :
           \E larger \in {ReportUnder(more, call.target_career)} :
               /\ Range(result.matched_skills) # Range(larger.matched_skills)
               /\ result.match_percentage < larger.match_percentage

-----------------------------------------------------------------------------
(* C7 *)

LowerSet(skills) == {lower(skills[i]) : i \in 1..Len(skills)}

\* the user skills are the career's required skills up to letter case
SameUpToCase(user_skills, career) == LowerSet(user_skills) = LowerSet(Declared(career))

\* C7 as amended: when the user skills equal a career's required skills up to
\* letter case, the career's report has no missing skill, and its
\* match_percentage is 100 if the career requires any skill and 0 if it
\* requires none.
C7_RoundTrip ==
    \A r \in Reports :
        SameUpToCase(call.user_skills, r.career) =>
            /\ r.report.missing_skills = <<>>
            /\ r.report.match_percentage =
                   IF Declared(r.career) = <<>> THEN 0 ELSE 100 * 1000

\* C7 as claimed: match_percentage is 100 also for the career that requires no
\* skill.
C7_RoundTripAlways100 ==
    \A r \in Reports :
        SameUpToCase(call.user_skills, r.career) =>
            /\ r.report.missing_skills = <<>>
            /\ r.report.match_percentage = 100 * 1000

\* the required skills of a career that has some, given in another letter case
C7_Witness ==
    /\ Returned("analyze_skill_gap")
    /\ call.target_career \in Names(career_database)
    /\ Len(Declared(call.target_career)) > 1
    /\ SameUpToCase(call.user_skills, call.target_career)
    /\ Range(call.user_skills) # Range(Declared(call.target_career))
    /\ result.match_percentage = 100 * 1000

-----------------------------------------------------------------------------
(* C8 *)

DefaultResources == <<"Online Courses", "Documentation", "Practice Projects">>

\* C8: get_learning_path returns one bundle per missing skill, in the input's
\* order; a skill that is exactly a key of the priority table gets the table's
\* level, resources and time, any other skill the default bundle; and the
\* estimate is "<2 x count>-<3 x count> months".
C8_LearningPath ==
    Returned("get_learning_path") =>
        LET missing == call.missing_skills
            path    == result.skills_to_learn
        IN  /\ Len(path) = Len(missing)
            /\ \A i \in 1..Len(missing) :
                 /\ path[i].skill = missing[i]
                 /\ IF missing[i] \in SkillPriorityKeys
                    THEN /\ path[i].level = skill_priority(missing[i]).level
                         /\ path[i].resources = skill_priority(missing[i]).resources
                         /\ path[i].time = skill_priority(missing[i]).time
                    ELSE /\ path[i].level = "Intermediate"
                         /\ path[i].resources = DefaultResources
                         /\ path[i].time = "2-3 months"
            /\ result.estimated_time =
                   str(2 * Len(missing)) \o <<"-">> \o str(3 * Len(missing))
                       \o <<" ","m","o","n","t","h","s">>

\* four missing skills, a table key before a skill the table lacks: "8-12 months"
C8_Witness ==
    /\ Returned("get_learning_path")
    /\ Len(call.missing_skills) = 4
    /\ call.missing_skills[1] = SQL
    /\ call.missing_skills[2] = <<"s","q","l">>
    /\ result.skills_to_learn[1].level = "Beginner"
    /\ result.skills_to_learn[2].level = "Intermediate"
    /\ result.estimated_time = <<"8","-","1","2"," ","m","o","n","t","h","s">>

-----------------------------------------------------------------------------
(* C9 *)

-----------------------------------------------------------------------------
(* C10 *)

\* C10: recommend_careers treats user_skills as a set: a list with the same
\* skills in another order or with a skill repeated gives the same result
\* (stated for the top_n the contract allows, the positive ones).
C10_SetSemantics ==
    (Returned("recommend_careers") /\ call.top_n > 0) =>
        \A other \in UserSkillLists :
            Range(other) = Range(call.user_skills) =>
                recommend_careers(career_database, vectorizer, skill_matrix, career_names,
                                  hashseed, argsort_ties, other, call.top_n) = result

====
